---- MODULE Spec2Model ----
(***************************************************************************)
(* Navigation / history synchronisation of the survey page                 *)
(* (src/public/script.js): the script's globals, the session store, the    *)
(* browser's session history, the viewport and the callbacks the script    *)
(* schedules, with one action per handler or callback.                     *)
(***************************************************************************)
EXTENDS Integers, Sequences, FiniteSets, TLC

(* ---------------------------------------------------------------- bounds *)

\* Largest survey size explored (totalPages is configured per deployment).
MaxPages == 3
\* Largest vertical scroll offset of the viewport.
MaxScroll == 1
\* Largest number of pending setTimeout callbacks of one kind.
MaxTimers == 1

(* ------------------------------------------------------- JavaScript values *)

\* An optional value: <<>> is null / undefined, <<v>> is the value v.
None == <<>>
Some(v) == <<v>>
IsSome(o) == o # <<>>
Get(o) == o[1]

\* The numbers that occur as page numbers and scroll offsets.
Numbers == 0 .. (MaxPages + MaxScroll + 1)

\* Number -> string conversion of sessionStorage.setItem and JSON.stringify.
NumToString(n) == ToString(n)

\* The result of parseInt on text that is no number.
NaN == -1

\* parseInt(text, 10) on a stored decimal string.
parseInt(s) ==
    IF \E n \in Numbers : NumToString(n) = s
    THEN CHOOSE n \in Numbers : NumToString(n) = s
    ELSE NaN

\* A JSON string literal.
Quote(s) == "\"" \o s \o "\""

Min(S) == CHOOSE m \in S : \A k \in S : m <= k

\* JSON text is a sequence of tokens.
RECURSIVE StringifyElems(_)
StringifyElems(h) ==
    IF h = <<>> THEN <<>>
    ELSE LET o == <<"{", Quote("page"), ":", NumToString(h[1].page), "}">>
         IN  IF Len(h) = 1 THEN o ELSE o \o <<",">> \o StringifyElems(Tail(h))

\* JSON.stringify(historyStates): [{"page":1},{"page":2}]
JSONstringifyArray(h) == <<"[">> \o StringifyElems(h) \o <<"]">>

RECURSIVE ParseElems(_)
ParseElems(t) ==
    IF Len(t) < 5 THEN <<>>
    ELSE <<[page |-> parseInt(t[4])]>> \o
         (IF Len(t) > 6 THEN ParseElems(SubSeq(t, 7, Len(t))) ELSE <<>>)

\* JSON.parse of a stored historyStates text.
JSONparseArray(t) == ParseElems(SubSeq(t, 2, Len(t) - 1))

RECURSIVE StringifyProps(_, _)
StringifyProps(o, ks) ==
    IF ks = {} THEN <<>>
    ELSE LET k == Min(ks)
             p == <<Quote(NumToString(k)), ":", NumToString(o[k])>>
         IN  IF ks = {k} THEN p ELSE p \o <<",">> \o StringifyProps(o, ks \ {k})

\* JSON.stringify(scrollPositions): {"1":0,"3":1}, integer keys ascending.
JSONstringifyObject(o) == <<"{">> \o StringifyProps(o, DOMAIN o) \o <<"}">>

\* The property key a quoted key token denotes.
ParseKey(tok) ==
    IF \E n \in Numbers : Quote(NumToString(n)) = tok
    THEN CHOOSE n \in Numbers : Quote(NumToString(n)) = tok
    ELSE NaN

RECURSIVE ParseProps(_)
ParseProps(t) ==
    IF Len(t) < 3 THEN {}
    ELSE {<<ParseKey(t[1]), parseInt(t[3])>>} \cup
         (IF Len(t) > 4 THEN ParseProps(SubSeq(t, 5, Len(t))) ELSE {})

\* JSON.parse of a stored scrollPositions text.
JSONparseObject(t) ==
    LET props == ParseProps(SubSeq(t, 2, Len(t) - 1))
        keys  == {p[1] : p \in props}
    IN  [k \in keys |-> (CHOOSE p \in props : p[1] = k)[2]]

\* The empty object {}.
EmptyObject == [k \in {} |-> 0]

\* o[k] = v on an object.
SetProp(o, k, v) == [j \in (DOMAIN o) \cup {k} |-> IF j = k THEN v ELSE o[j]]

(* ------------------------------------------------------------------ state *)

VARIABLES
    \* configuration constants of the script
    totalPages, chatbotPage, textareaReplacement,
    \* the body the metadata endpoint of this deployment answers with
    endpointAnswer,
    \* the script's globals
    consentCheckbox, currentPage, historyStates, scrollPositions,
    scrollFrame1Id, scrollFrame2Id, scrollPos, bypassPopState, dialogueFinished,
    \* the session store and the browser's session history
    sessionStorage, hEntries, hIndex, pendingTraversals,
    \* the document
    phase, popstateAttached, activePage, scrollY, subView, chatView,
    \* scheduled callbacks
    rafQueue, scrollTimers, activationTimers,
    \* whether a request was sent to the metadata endpoint in this session
    fetchIssued,
    \* how the last page load or navigation step ended
    lastOp

config == <<totalPages, chatbotPage, textareaReplacement, endpointAnswer>>
globals == <<consentCheckbox, currentPage, historyStates, scrollPositions,
             scrollFrame1Id, scrollFrame2Id, scrollPos, bypassPopState,
             dialogueFinished>>
browser == <<sessionStorage, hEntries, hIndex, pendingTraversals>>
document == <<phase, popstateAttached, activePage, scrollY, subView, chatView>>
callbacks == <<rafQueue, scrollTimers, activationTimers>>
vars == <<config, globals, browser, document, callbacks, fetchIssued, lastOp>>

(* ------------------------------------------------- view and scroll manager *)

\* The display state the script changes when it shows a page.
DisplayState == [activePage |-> activePage, scrollY |-> scrollY,
                 scrollFrame1Id |-> scrollFrame1Id, scrollFrame2Id |-> scrollFrame2Id,
                 scrollPos |-> scrollPos, rafQueue |-> rafQueue,
                 chatView |-> chatView, activationTimers |-> activationTimers]

\* The class state of the markup before any script ran: survey view.
SurveyView == [interface |-> FALSE, survey |-> FALSE, surveyLocked |-> FALSE,
               page |-> FALSE, pageLocked |-> FALSE, body |-> FALSE]

\* requestAnimationFrame hands out a handle no pending or remembered request has.
FreshFrameId(q, f1, f2) ==
    Min({n \in 1 .. 4 : n \notin ({r.id : r \in q} \cup {f1, f2})})

\* cancelScrollDelays: cancel the two remembered frame requests (0 is null).
cancelScrollDelays(d) ==
    [d EXCEPT !.rafQueue = {r \in d.rafQueue :
                              r.id \notin ({d.scrollFrame1Id, d.scrollFrame2Id} \ {0})},
              !.scrollFrame1Id = 0,
              !.scrollFrame2Id = 0]

\* applyChatbotViewState: reads the global currentPage.
applyChatbotViewState(d, cp) ==
    IF cp = chatbotPage
    THEN [d EXCEPT !.chatView = [@ EXCEPT !.interface = TRUE, !.survey = TRUE,
                                          !.page = TRUE],
                   !.activationTimers = @ + 1]
    ELSE [d EXCEPT !.chatView = SurveyView]

\* The scroll stage of showPage, for a page other than the chatbot page.
restoreScroll(d, pageNumber, sp) ==
    IF pageNumber \in DOMAIN sp
    THEN LET id == FreshFrameId(d.rafQueue, d.scrollFrame1Id, d.scrollFrame2Id)
         IN  [d EXCEPT !.scrollPos = Some(sp[pageNumber]),
                       !.scrollFrame1Id = id,
                       !.rafQueue = @ \cup {[id |-> id, kind |-> "frame1"]}]
    ELSE [d EXCEPT !.scrollPos = None, !.scrollY = 0]

\* showPage(pageNumber) with the globals currentPage = cp, scrollPositions = sp.
showPage(d, pageNumber, cp, sp) ==
    LET d1 == [cancelScrollDelays(d) EXCEPT !.activePage = pageNumber]
        d2 == IF pageNumber >= chatbotPage - 1 /\ pageNumber <= chatbotPage + 1
              THEN applyChatbotViewState(d1, cp)
              ELSE d1
    IN  IF pageNumber # chatbotPage THEN restoreScroll(d2, pageNumber, sp) ELSE d2

\* The script can schedule one more activation timer if showPage needs one.
CanShow(pageNumber, cp) ==
    (cp = chatbotPage /\ pageNumber >= chatbotPage - 1 /\ pageNumber <= chatbotPage + 1)
        => activationTimers < MaxTimers

\* Assign the display state d to the next state.
Display(d) ==
    /\ activePage' = d.activePage
    /\ scrollY' = d.scrollY
    /\ scrollFrame1Id' = d.scrollFrame1Id
    /\ scrollFrame2Id' = d.scrollFrame2Id
    /\ scrollPos' = d.scrollPos
    /\ rafQueue' = d.rafQueue
    /\ chatView' = d.chatView
    /\ activationTimers' = d.activationTimers

\* Mutant of setFinishedDialogueState: the textareaReplacement switch is ignored.
setFinishedDialogueStateAlways(tr, df) ==
    IF ~df THEN [inputHidden |-> FALSE, finishedHidden |-> TRUE]
    ELSE [inputHidden |-> TRUE, finishedHidden |-> FALSE]

\* setFinishedDialogueState: the two sub-views of the chatbot's bottom area.
setFinishedDialogueState(tr, df) ==
    IF ~tr THEN [inputHidden |-> FALSE, finishedHidden |-> TRUE]
    ELSE IF ~df THEN [inputHidden |-> FALSE, finishedHidden |-> TRUE]
    ELSE [inputHidden |-> TRUE, finishedHidden |-> FALSE]

(* --------------------------------------------------------- state management *)

\* Mutant of saveNavigationState: the historyStates entry is not written.
saveNavigationStatePageOnly(s, cp, h) ==
    [s EXCEPT !.currentPage = Some(NumToString(cp))]

\* saveNavigationState on store s.
saveNavigationState(s, cp, h) ==
    [s EXCEPT !.currentPage = Some(NumToString(cp)),
              !.historyStates = Some(JSONstringifyArray(h))]

\* Mutant of saveScrollPositions: the chatbot-page guard is lost.
saveScrollPositionsUnguarded(sp, pageNumber, cp, y) == SetProp(sp, pageNumber, y)

\* saveScrollPositions(pageNumber): the scrollPositions object afterwards.
saveScrollPositions(sp, pageNumber, cp, y) ==
    IF cp # chatbotPage THEN SetProp(sp, pageNumber, y) ELSE sp

\* saveScrollPositions(pageNumber): the session store afterwards.
storeScrollPositions(s, sp, pageNumber, cp, y) ==
    IF cp # chatbotPage
    THEN [s EXCEPT !.scrollPositions =
                       Some(JSONstringifyObject(saveScrollPositions(sp, pageNumber, cp, y)))]
    ELSE s

\* Mutant of restoredPage: the stored page is not read back.
restoredPageDefault(s, cp) == cp

\* restoreState: the globals read back from store s (defaults where absent).
restoredPage(s, cp) ==
    IF IsSome(s.currentPage) THEN parseInt(Get(s.currentPage)) ELSE cp
restoredHistory(s, h) ==
    IF IsSome(s.historyStates) THEN JSONparseArray(Get(s.historyStates)) ELSE h
restoredScroll(s, sp) ==
    IF IsSome(s.scrollPositions) THEN JSONparseObject(Get(s.scrollPositions)) ELSE sp

(* -------------------------------------------------------- history management *)

\* Mutant of initializeHistory: only the last entry is compared.
initializeHistoryLast(h, page, cp) ==
    IF h = <<>> \/ h[Len(h)].page # cp THEN Append(h, [page |-> page]) ELSE h

\* Mutant of initializeHistory: the entry is appended on every load.
initializeHistoryAlways(h, page, cp) == Append(h, [page |-> page])

\* initializeHistory(page): historyStates afterwards (the test reads currentPage).
initializeHistory(h, page, cp) ==
    IF ~(\E i \in 1 .. Len(h) : h[i].page = cp) THEN Append(h, [page |-> page]) ELSE h

\* history.replaceState(stateObj): the current entry's state is replaced.
replaceState(es, i, page) == [es EXCEPT ![i] = Some([page |-> page])]

\* history.pushState(stateObj): entries after the current one are dropped.
pushState(es, i, page) == Append(SubSeq(es, 1, i), Some([page |-> page]))

\* Mutant of pushPageToHistory: the page being left is recorded.
pushPageToHistoryPrev(h, page) == Append(h, [page |-> page - 1])

\* Mutant of pushPageToHistory: the mirror is not extended.
pushPageToHistoryNone(h, page) == h

\* pushPageToHistory(page): historyStates afterwards.
pushPageToHistory(h, page) == Append(h, [page |-> page])

(* ------------------------------------------------------------------ metadata *)

\* The metadata endpoint answers with both fields ...
FullAnswer == [participantId |-> Some("P1"), treatmentGroup |-> Some("0")]

\* ... or with a body that has neither (an error body).
EmptyAnswer == [participantId |-> None, treatmentGroup |-> None]

Responses == {FullAnswer, EmptyAnswer}

\* No metadata request was needed: the empty surveyData object.
NoSurveyData == [participantId |-> None, treatmentGroup |-> None]

\* getMetadata asks the server when an identifier is missing from the store.
needsFetch(s) == ~IsSome(s.participantId) \/ ~IsSome(s.treatmentGroup)

\* String(value) of sessionStorage.setItem for a possibly undefined value.
OptToString(o) == IF IsSome(o) THEN Get(o) ELSE "undefined"

\* a || b on optional strings.
OrElse(a, b) == IF IsSome(a) THEN a ELSE b

\* Number(treatmentGroup) followed by the range check of getMetadata.
treatmentGroupOf(o) ==
    IF IsSome(o) /\ parseInt(Get(o)) \in {0, 1} THEN parseInt(Get(o)) ELSE 1

\* getMetadata: the session store afterwards, surveyData being the answer.
getMetadata(s, surveyData) ==
    [s EXCEPT !.participantId =
                  Some(OptToString(OrElse(s.participantId, surveyData.participantId))),
              !.treatmentGroup =
                  Some(NumToString(treatmentGroupOf(
                           OrElse(s.treatmentGroup, surveyData.treatmentGroup))))]

(* --------------------------------------------------------------------- Init *)

EmptyStore == [currentPage |-> None, historyStates |-> None, scrollPositions |-> None,
               dialogueFinished |-> None, participantId |-> None,
               treatmentGroup |-> None]

\* The markup's sub-view classes before setFinishedDialogueState ran.
SubViews == [inputHidden : BOOLEAN, finishedHidden : BOOLEAN]

\* consentCheckbox: undefined (the script never assigns it), or the checkbox
\* element of a deployment that references it.
ConsentValues == {None} \cup {Some([checked |-> b]) : b \in BOOLEAN}

\* A fresh session: the script has been evaluated, DOMContentLoaded is pending.
Init ==
    /\ totalPages \in 1 .. MaxPages
    /\ chatbotPage \in 1 .. totalPages
    /\ textareaReplacement \in BOOLEAN
    /\ endpointAnswer \in Responses
    /\ consentCheckbox \in ConsentValues
    /\ currentPage = 1
    /\ historyStates = <<>>
    /\ scrollPositions = EmptyObject
    /\ scrollFrame1Id = 0
    /\ scrollFrame2Id = 0
    /\ scrollPos = None
    /\ bypassPopState = FALSE
    /\ dialogueFinished = FALSE
    /\ sessionStorage = EmptyStore
    /\ hEntries = <<None>>
    /\ hIndex = 1
    /\ pendingTraversals = 0
    /\ phase = "loading"
    /\ popstateAttached = FALSE
    /\ activePage = 0
    /\ scrollY = 0
    /\ subView \in SubViews
    /\ chatView = SurveyView
    /\ rafQueue = {}
    /\ scrollTimers = 0
    /\ activationTimers = 0
    /\ fetchIssued = FALSE
    /\ lastOp = "start"

(* ------------------------------------------------------------------ actions *)

\* initializePage after getMetadata resolved with surveyData.
initializeWith(surveyData) ==
    LET s1 == getMetadata(sessionStorage, surveyData)
        cp == restoredPage(s1, currentPage)
        h0 == restoredHistory(s1, historyStates)
        sp == restoredScroll(s1, scrollPositions)
        h1 == initializeHistory(h0, cp, cp)
    IN  /\ CanShow(cp, cp)
        /\ currentPage' = cp
        /\ historyStates' = h1
        /\ scrollPositions' = sp
        /\ subView' = setFinishedDialogueState(textareaReplacement, dialogueFinished)
        /\ hEntries' = replaceState(hEntries, hIndex, cp)
        /\ sessionStorage' = saveNavigationState(s1, cp, h1)
        /\ Display(showPage(DisplayState, cp, cp, sp))
        /\ popstateAttached' = TRUE
        /\ phase' = "ready"
        /\ lastOp' = "init"
        /\ UNCHANGED <<config, consentCheckbox, bypassPopState, dialogueFinished,
                       hIndex, pendingTraversals, scrollTimers>>

\* DOMContentLoaded: initializePage runs to its end.
InitializePage ==
    /\ phase = "loading"
    /\ IF needsFetch(sessionStorage)
       THEN /\ fetchIssued' = TRUE
            /\ initializeWith(endpointAnswer)
       ELSE /\ fetchIssued' = fetchIssued
            /\ initializeWith(NoSurveyData)

\* DOMContentLoaded, and the metadata request is rejected: initializePage ends
\* at its await, before restoreState.
FetchFails ==
    /\ phase = "loading"
    /\ needsFetch(sessionStorage)
    /\ fetchIssued' = TRUE
    /\ phase' = "failed"
    /\ lastOp' = "fetchFailed"
    /\ UNCHANGED <<config, globals, browser, popstateAttached, activePage, scrollY,
                   subView, chatView, callbacks>>

\* The user reloads the page: the beforeunload listener runs (if attached), the
\* document and the script's globals start over, the session store and the
\* session history stay.
Reload ==
    /\ phase \in {"ready", "failed"}
    /\ pendingTraversals = 0
    /\ sessionStorage' =
           IF phase = "ready"
           THEN storeScrollPositions(sessionStorage, scrollPositions, currentPage,
                                     currentPage, scrollY)
           ELSE sessionStorage
    /\ currentPage' = 1
    /\ historyStates' = <<>>
    /\ scrollPositions' = EmptyObject
    /\ scrollFrame1Id' = 0
    /\ scrollFrame2Id' = 0
    /\ scrollPos' = None
    /\ bypassPopState' = FALSE
    /\ dialogueFinished' = (sessionStorage.dialogueFinished = Some("true"))
    /\ consentCheckbox' \in {consentCheckbox} \cup
                            (IF IsSome(consentCheckbox)
                             THEN {Some([checked |-> FALSE])} ELSE {})
    /\ phase' = "loading"
    /\ popstateAttached' = FALSE
    /\ activePage' = 0
    /\ scrollY' \in {0, scrollY}
    /\ subView' \in SubViews
    /\ chatView' = SurveyView
    /\ rafQueue' = {}
    /\ scrollTimers' = 0
    /\ activationTimers' = 0
    /\ lastOp' = IF phase = "ready" /\ ~popstateAttached
                 THEN "reloadDetached" ELSE "reload"
    /\ UNCHANGED <<config, hEntries, hIndex, pendingTraversals, fetchIssued>>

(* --------------------------------------------------------------- handlePopState *)

\* Reading a property of undefined or null throws a TypeError and ends the
\* handler: consentCheckbox.checked, and event.state.page where it is evaluated.
popStateThrows(ev) ==
    \/ ~IsSome(consentCheckbox)
    \/ ~IsSome(ev) /\ (currentPage = 1 \/ currentPage # totalPages)

\* Mutant of preCheck: the pre-check is skipped.
preCheckSkipped(b) == FALSE

\* (d) the pre-check: the handler returns early while the bypass flag is set ...
preCheck(b) == b

\* Mutant of consumeBypass: the flag is left as it was.
consumeBypassKept(b) == b

\* ... after resetting the flag.
consumeBypass(b) == FALSE

\* Mutant of consentGate: the gate is not tied to page 1.
consentGateAnyPage(cp, ev, checkbox) == ev.page = 2 /\ ~checkbox.checked

\* Mutant of consentGate: the negation of the consent test is lost.
consentGateInverted(cp, ev, checkbox) == cp = 1 /\ ev.page = 2 /\ checkbox.checked

\* (b) the consent gate.
consentGate(cp, ev, checkbox) == cp = 1 /\ ev.page = 2 /\ ~checkbox.checked

\* Mutant of terminalGate: the comparison is off by one.
terminalGatePast(cp) == cp > totalPages

\* (c) the terminal gate.
terminalGate(cp) == cp = totalPages

\* Mutant of reconciledPage: every event is taken for a back step.
reconciledPageDown(cp, ev) == cp - 1

\* Mutant of reconciledPage: the direction test is lost.
reconciledPageUp(cp, ev) == cp + 1

\* (a) the default branch: one step down or up.
reconciledPage(cp, ev) == IF ev.page < cp THEN cp - 1 ELSE cp + 1

\* handlePopState(event), event.state being ev; pend counts the traversals still
\* queued when the handler starts.
handlePopState(ev, pend) ==
    IF preCheck(bypassPopState)
    THEN /\ bypassPopState' = consumeBypass(bypassPopState)
         /\ pendingTraversals' = pend
         /\ lastOp' = "bypassed"
         /\ UNCHANGED <<currentPage, scrollPositions, sessionStorage, popstateAttached,
                        activePage, scrollY, scrollFrame1Id, scrollFrame2Id, scrollPos,
                        rafQueue, chatView, activationTimers>>
    ELSE IF popStateThrows(ev)
    THEN /\ pendingTraversals' = pend
         /\ lastOp' = "typeError"
         /\ UNCHANGED <<bypassPopState, currentPage, scrollPositions, sessionStorage,
                        popstateAttached, activePage, scrollY, scrollFrame1Id,
                        scrollFrame2Id, scrollPos, rafQueue, chatView, activationTimers>>
    ELSE IF consentGate(currentPage, Get(ev), Get(consentCheckbox))
    THEN /\ bypassPopState' = TRUE
         /\ pendingTraversals' = pend + 1
         /\ lastOp' = "gate"
         /\ UNCHANGED <<currentPage, scrollPositions, sessionStorage, popstateAttached,
                        activePage, scrollY, scrollFrame1Id, scrollFrame2Id, scrollPos,
                        rafQueue, chatView, activationTimers>>
    ELSE IF terminalGate(currentPage)
    THEN /\ popstateAttached' = FALSE
         /\ pendingTraversals' = pend + 1
         /\ lastOp' = "terminal"
         /\ UNCHANGED <<bypassPopState, currentPage, scrollPositions, sessionStorage,
                        activePage, scrollY, scrollFrame1Id, scrollFrame2Id, scrollPos,
                        rafQueue, chatView, activationTimers>>
    ELSE LET sp == saveScrollPositions(scrollPositions, currentPage, currentPage, scrollY)
             s1 == storeScrollPositions(sessionStorage, scrollPositions, currentPage,
                                        currentPage, scrollY)
             cp == reconciledPage(currentPage, Get(ev))
         IN  /\ CanShow(cp, cp)
             /\ scrollPositions' = sp
             /\ currentPage' = cp
             /\ Display(showPage(DisplayState, cp, cp, sp))
             /\ sessionStorage' = saveNavigationState(s1, cp, historyStates)
             /\ pendingTraversals' = pend
             /\ lastOp' = "reconciled"
             /\ UNCHANGED <<bypassPopState, popstateAttached>>

\* The session history moves to entry i; popstate is dispatched to the listener.
traverseTo(i, pend) ==
    /\ hIndex' = i
    /\ IF popstateAttached
       THEN handlePopState(hEntries[i], pend)
       ELSE /\ pendingTraversals' = pend
            /\ lastOp' = "unheard"
            /\ UNCHANGED <<bypassPopState, currentPage, scrollPositions, sessionStorage,
                           popstateAttached, activePage, scrollY, scrollFrame1Id,
                           scrollFrame2Id, scrollPos, rafQueue, chatView,
                           activationTimers>>
    /\ UNCHANGED <<config, consentCheckbox, historyStates, dialogueFinished, hEntries,
                   phase, subView, scrollTimers, fetchIssued>>

\* The user presses the browser's back or forward button (one step).
UserTraversal ==
    /\ phase \in {"ready", "failed"}
    /\ pendingTraversals = 0
    /\ \E delta \in {-1, 1} :
          /\ hIndex + delta \in 1 .. Len(hEntries)
          /\ traverseTo(hIndex + delta, 0)

\* The browser carries out a history.back() the script asked for; at the first
\* entry of the session history there is nothing to go back to.
ProgrammaticBack ==
    /\ pendingTraversals > 0
    /\ IF hIndex > 1
       THEN traverseTo(hIndex - 1, pendingTraversals - 1)
       ELSE /\ pendingTraversals' = pendingTraversals - 1
            /\ lastOp' = "noEntry"
            /\ UNCHANGED <<config, globals, sessionStorage, hEntries, hIndex, document,
                           callbacks, fetchIssued>>

(* ------------------------------------------------------------ other handlers *)

\* Forward navigation to a page seen for the first time (the "next" control),
\* the caller of pushPageToHistory: leaving page 1 needs the consent checkbox
\* checked. Forward navigation to a page already in historyStates is not a
\* step of this model.
goToPage ==
    LET target == currentPage + 1
        sp == saveScrollPositions(scrollPositions, currentPage, currentPage, scrollY)
        s1 == storeScrollPositions(sessionStorage, scrollPositions, currentPage,
                                   currentPage, scrollY)
        h1 == pushPageToHistory(historyStates, target)
    IN  /\ phase = "ready"
        /\ pendingTraversals = 0
        /\ activePage = currentPage
        /\ target <= totalPages
        /\ ~(\E i \in 1 .. Len(historyStates) : historyStates[i].page = target)
        /\ IsSome(consentCheckbox)
        /\ currentPage = 1 => Get(consentCheckbox).checked
        /\ CanShow(target, target)
        /\ scrollPositions' = sp
        /\ currentPage' = target
        /\ historyStates' = h1
        /\ hEntries' = pushState(hEntries, hIndex, target)
        /\ hIndex' = hIndex + 1
        /\ sessionStorage' = saveNavigationState(s1, target, h1)
        /\ Display(showPage(DisplayState, target, target, sp))
        /\ lastOp' = "pushed"
        /\ UNCHANGED <<config, consentCheckbox, bypassPopState, dialogueFinished,
                       pendingTraversals, phase, popstateAttached, subView,
                       scrollTimers, fetchIssued>>

\* The user ticks or unticks the consent checkbox, which is on page 1.
ToggleConsent ==
    /\ phase = "ready"
    /\ activePage = 1
    /\ IsSome(consentCheckbox)
    /\ consentCheckbox' = Some([checked |-> ~Get(consentCheckbox).checked])
    /\ lastOp' = lastOp
    /\ UNCHANGED <<config, currentPage, historyStates, scrollPositions, scrollFrame1Id,
                   scrollFrame2Id, scrollPos, bypassPopState, dialogueFinished, browser,
                   document, callbacks, fetchIssued>>

\* The user scrolls the viewport.
UserScroll ==
    /\ phase = "ready"
    /\ \E y \in 0 .. MaxScroll : y # scrollY /\ scrollY' = y
    /\ lastOp' = lastOp
    /\ UNCHANGED <<config, globals, browser, phase, popstateAttached, activePage,
                   subView, chatView, callbacks, fetchIssued>>

\* handleFinishedDialogue: the chat subsystem reports the final dialogue state.
handleFinishedDialogue ==
    /\ phase = "ready"
    /\ activePage = chatbotPage
    /\ dialogueFinished' = TRUE
    /\ sessionStorage' = [sessionStorage EXCEPT !.dialogueFinished = Some("true")]
    /\ subView' = setFinishedDialogueState(textareaReplacement, TRUE)
    /\ lastOp' = lastOp
    /\ UNCHANGED <<config, consentCheckbox, currentPage, historyStates, scrollPositions,
                   scrollFrame1Id, scrollFrame2Id, scrollPos, bypassPopState, hEntries,
                   hIndex, pendingTraversals, phase, popstateAttached, activePage,
                   scrollY, chatView, callbacks, fetchIssued>>

(* ------------------------------------------------------- scheduled callbacks *)

\* The first animation frame of showPage: requests the second one.
Frame1Fires ==
    \E r \in rafQueue :
       /\ r.kind = "frame1"
       /\ LET q == rafQueue \ {r}
              id == FreshFrameId(q, scrollFrame1Id, scrollFrame2Id)
          IN  /\ rafQueue' = q \cup {[id |-> id, kind |-> "frame2"]}
              /\ scrollFrame2Id' = id
       /\ lastOp' = lastOp
       /\ UNCHANGED <<config, consentCheckbox, currentPage, historyStates, scrollPositions,
                      scrollFrame1Id, scrollPos, bypassPopState, dialogueFinished,
                      browser, document, scrollTimers, activationTimers, fetchIssued>>

\* The second animation frame: starts the 50 ms timer.
Frame2Fires ==
    \E r \in rafQueue :
       /\ r.kind = "frame2"
       /\ scrollTimers < MaxTimers
       /\ rafQueue' = rafQueue \ {r}
       /\ scrollTimers' = scrollTimers + 1
       /\ lastOp' = lastOp
       /\ UNCHANGED <<config, globals, browser, document, activationTimers, fetchIssued>>

\* Mutant of scrollTo: the viewport goes to the top whatever is asked for.
scrollToTop(y, pos) == 0

\* window.scrollTo({top: scrollPos}): an undefined top leaves the offset alone.
scrollTo(y, pos) == IF IsSome(pos) THEN Get(pos) ELSE y

\* The 50 ms timer: scrolls to the global scrollPos as it is now.
ScrollTimerFires ==
    /\ scrollTimers > 0
    /\ scrollTimers' = scrollTimers - 1
    /\ scrollY' = scrollTo(scrollY, scrollPos)
    /\ lastOp' = lastOp
    /\ UNCHANGED <<config, globals, browser, phase, popstateAttached, activePage,
                   subView, chatView, rafQueue, activationTimers, fetchIssued>>

\* The 100 ms timer of applyChatbotViewState.
ActivationTimerFires ==
    /\ activationTimers > 0
    /\ activationTimers' = activationTimers - 1
    /\ chatView' = [chatView EXCEPT !.surveyLocked = TRUE, !.pageLocked = TRUE,
                                    !.body = TRUE]
    /\ lastOp' = lastOp
    /\ UNCHANGED <<config, globals, browser, phase, popstateAttached, activePage,
                   scrollY, subView, rafQueue, scrollTimers, fetchIssued>>

(* ------------------------------------------------------------ specification *)

Next ==
    \/ InitializePage
    \/ FetchFails
    \/ Reload
    \/ UserTraversal
    \/ ProgrammaticBack
    \/ goToPage
    \/ ToggleConsent
    \/ UserScroll
    \/ handleFinishedDialogue
    \/ Frame1Fires
    \/ Frame2Fires
    \/ ScrollTimerFires
    \/ ActivationTimerFires

Spec == Init /\ [][Next]_vars

\* The survey on a document that fits the viewport: every step but the user's
\* scrolling, so that all scroll offsets are 0.
NavNext ==
    \/ InitializePage
    \/ FetchFails
    \/ Reload
    \/ UserTraversal
    \/ ProgrammaticBack
    \/ goToPage
    \/ ToggleConsent
    \/ handleFinishedDialogue
    \/ Frame1Fires
    \/ Frame2Fires
    \/ ScrollTimerFires
    \/ ActivationTimerFires

NavSpec == Init /\ [][NavNext]_vars

\* The configuration the script is shipped with for the sub-view switch
\* (textareaReplacement = false), behind an endpoint that answers in full.
ScrollInit == Init /\ ~textareaReplacement /\ endpointAnswer = FullAnswer

\* Every step, the user's scrolling included, in that configuration.
ScrollSpec == ScrollInit /\ [][Next]_vars

\* The browser runs every requested animation frame and every started timer.
ScrollFairSpec ==
    /\ ScrollSpec
    /\ WF_vars(Frame1Fires)
    /\ WF_vars(Frame2Fires)
    /\ WF_vars(ScrollTimerFires)

(* ------------------------------------------------------------- vocabulary *)

\* The page initialised and its listeners attached by attachEventListeners.
Ready == phase = "ready"

\* The page numbers of historyStates, in order.
PagesOf(h) == [i \in 1 .. Len(h) |-> h[i].page]

\* The page a session history entry carries (0 for an entry without state).
EntryPage(e) == IF IsSome(e) THEN Get(e).page ELSE 0

\* The page numbers of the session history, in order.
NativePages == [i \in 1 .. Len(hEntries) |-> EntryPage(hEntries[i])]

\* The consent checkbox exists and is unchecked / checked.
ConsentUnchecked == IsSome(consentCheckbox) /\ ~Get(consentCheckbox).checked
ConsentChecked == IsSome(consentCheckbox) /\ Get(consentCheckbox).checked

\* This step is a first-visit push (goToPage).
PushStep == lastOp' = "pushed" /\ hIndex' # hIndex

\* This step is a popstate event delivered to handlePopState.
PopStateHandled == hIndex' # hIndex /\ popstateAttached

(* ------------------------------------------------------------------ claims *)

\* C1 (gate property): whenever currentPage is 1 and the consent checkbox is
\* unchecked, a popstate event whose state page is 2 changes neither currentPage
\* nor the displayed page: it sets the bypass flag and asks for history.back().
\* While the flag is set the page stays 1, and the popstate of that back() ends
\* at rest: currentPage 1, page 1 displayed, the current entry of the session
\* history carrying page 1, the flag false, nothing pending.
GateProperty ==
    /\ [](bypassPopState =>
             /\ pendingTraversals = 1
             /\ hIndex > 1
             /\ currentPage = 1
             /\ activePage = 1)
    /\ [][(PopStateHandled /\ currentPage = 1 /\ ConsentUnchecked
              /\ EntryPage(hEntries[hIndex']) = 2)
          => (/\ currentPage' = 1
              /\ activePage' = activePage
              /\ bypassPopState'
              /\ pendingTraversals' = pendingTraversals + 1)]_vars
    /\ [][bypassPopState
          => (/\ currentPage' = 1
              /\ activePage' = 1
              /\ (hIndex' # hIndex
                     => /\ ~bypassPopState'
                        /\ pendingTraversals' = 0
                        /\ EntryPage(hEntries'[hIndex']) = 1))]_vars

\* C1 witness: the bounce has been absorbed with the checkbox unchecked.
GateWitness ==
    lastOp = "bypassed" /\ ConsentUnchecked /\ currentPage = 1 /\ pendingTraversals = 0

\* The store says the survey is on its last page.
TerminalReached == sessionStorage.currentPage = Some(NumToString(totalPages))

\* C2 (terminal lock): once currentPage equals totalPages it stays so, in the
\* store and, whenever the page is initialised, in currentPage and on screen,
\* whatever back / forward presses and reloads follow; no later popstate event
\* runs the default reconciliation.
TerminalLock ==
    [][TerminalReached
       => (/\ TerminalReached'
           /\ Ready' => (currentPage' = totalPages /\ activePage' = totalPages)
           /\ hIndex' # hIndex => lastOp' # "reconciled")]_vars

\* C2 witness: after the terminal gate detached the handler, a popstate event
\* went unheard and the last page is still shown.
TerminalWitness ==
    /\ lastOp = "unheard"
    /\ Ready
    /\ totalPages > 1
    /\ currentPage = totalPages
    /\ activePage = totalPages

\* What a page load finds in the session store.
StoredPage == parseInt(Get(sessionStorage.currentPage))
StoredHistory == JSONparseArray(Get(sessionStorage.historyStates))
StoredScroll ==
    IF IsSome(sessionStorage.scrollPositions)
    THEN JSONparseObject(Get(sessionStorage.scrollPositions))
    ELSE EmptyObject

\* This step is initializePage on a reload: the store holds a navigation state.
ReloadInit == phase = "loading" /\ phase' = "ready" /\ IsSome(sessionStorage.currentPage)

SingleAppend ==
    /\ [](\A i \in 1 .. Len(historyStates) : historyStates[i].page = i)
    /\ [][PushStep
          => (/\ historyStates' = Append(historyStates, [page |-> currentPage'])
              /\ hIndex' = hIndex + 1
              /\ hEntries' = Append(SubSeq(hEntries, 1, hIndex),
                                    Some([page |-> currentPage'])))]_vars

\* C4 witness: the third page has just been pushed.
AppendWitness == lastOp = "pushed" /\ Len(historyStates) = 3 /\ hIndex = 3

\* The scenario of C5: three pages, the chatbot on page 2.
Scenario == totalPages = 3 /\ chatbotPage = 2 /\ Ready /\ pendingTraversals = 0
            /\ ~bypassPopState

\* The scenario on page n, reached by first-visit pushes only.
ScenarioAt(n) ==
    /\ Scenario
    /\ popstateAttached
    /\ currentPage = n
    /\ activePage = n
    /\ PagesOf(historyStates) = [i \in 1 .. n |-> i]
    /\ NativePages = [i \in 1 .. n |-> i]
    /\ hIndex = n

\* The two pushes of the scenario.
ScenarioPushes ==
    /\ [][(ScenarioAt(1) /\ ConsentChecked /\ PushStep) => ScenarioAt(2)']_vars
    /\ [][(ScenarioAt(2) /\ PushStep) => ScenarioAt(3)']_vars

\* C5 as stated: after the pushes to pages 2 and 3, the first browser-back
\* displays page 2 and the second page 1, historyStates stays [1, 2, 3] and the
\* bypass flag is never set.
ScenarioAsStated ==
    /\ ScenarioPushes
    /\ [][(ScenarioAt(3) /\ hIndex' = hIndex - 1)
          => (/\ activePage' = 2
              /\ historyStates' = historyStates
              /\ ~bypassPopState')]_vars
    /\ [][(Scenario /\ popstateAttached /\ currentPage = 2 /\ hIndex = 2
              /\ PagesOf(historyStates) = <<1, 2, 3>> /\ NativePages = <<1, 2, 3>>
              /\ hIndex' = hIndex - 1)
          => (/\ activePage' = 1
              /\ historyStates' = historyStates
              /\ ~bypassPopState')]_vars

\* The scenario after the terminal gate fired on page 3.
ScenarioLocked ==
    /\ totalPages = 3 /\ chatbotPage = 2 /\ Ready
    /\ ~popstateAttached
    /\ currentPage = 3
    /\ PagesOf(historyStates) = <<1, 2, 3>>
    /\ NativePages = <<1, 2, 3>>

\* C5 amended: page 3 is the last page, so the first browser-back meets the
\* terminal gate: the handler is detached, history.back() is requested, and
\* page 3 stays displayed after this and every further back press;
\* historyStates stays [1, 2, 3] and the bypass flag is never set.
ScenarioTerminal ==
    /\ ScenarioPushes
    /\ [][(ScenarioAt(3) /\ hIndex' = hIndex - 1)
          => (/\ ScenarioLocked'
              /\ activePage' = 3
              /\ pendingTraversals' = 1
              /\ ~bypassPopState')]_vars
    /\ [][(ScenarioLocked /\ hIndex' # hIndex)
          => (/\ ScenarioLocked'
              /\ activePage' = 3
              /\ ~bypassPopState')]_vars

\* C5 witness: both back steps of the scenario are done, page 3 is displayed.
ScenarioWitness ==
    ScenarioLocked /\ hIndex = 1 /\ activePage = 3 /\ lastOp = "unheard"

\* C7 (finished-view gating): once setFinishedDialogueState has run (the page
\* is initialised), exactly one of the two sub-views is shown; with
\* textareaReplacement false it is the input sub-view whatever dialogueFinished
\* is, with textareaReplacement true the finished sub-view is shown iff
\* dialogueFinished; dialogueFinished is what the store holds, and stays true
\* there over reloads.
FinishedViewGating ==
    /\ [](Ready =>
             /\ subView.inputHidden # subView.finishedHidden
             /\ ~textareaReplacement => ~subView.inputHidden
             /\ textareaReplacement => (~subView.finishedHidden <=> dialogueFinished))
    /\ [](dialogueFinished = (sessionStorage.dialogueFinished = Some("true")))
    /\ [][sessionStorage.dialogueFinished = Some("true")
          => sessionStorage'.dialogueFinished = Some("true")]_vars

\* C7 witness: with replacement disabled, a reload after the dialogue finished
\* shows the input sub-view.
FinishedViewWitness ==
    /\ lastOp = "init"
    /\ ~textareaReplacement
    /\ dialogueFinished
    /\ ~subView.inputHidden
    /\ subView.finishedHidden

\* C9 as stated (history mirror consistency): on an initialised page the page
\* values of historyStates are the page values of the session history entries.
MirrorConsistency == Ready => PagesOf(historyStates) = NativePages

RecordedOffset(k) ==
    IF k \in DOMAIN scrollPositions THEN Some(scrollPositions[k]) ELSE None

\* showPage ran in this step: the page was initialised or the displayed page changed.
ShowStep == Ready' /\ (~Ready \/ activePage' # activePage)

\* The restoration showPage started is under way: its first or second frame is
\* requested, or a 50 ms timer runs.
RestorePending ==
    \/ \E r \in rafQueue : r.kind = "frame1" /\ r.id = scrollFrame1Id
    \/ \E r \in rafQueue : r.kind = "frame2" /\ r.id = scrollFrame2Id
    \/ scrollTimers > 0

\* C6 (scroll round trip): for a displayed page K other than the chatbot page,
\* the offset showPage read is the offset recorded for K (also after a reload
\* that read scrollPositions back from the store); showPage on a page with a
\* record requests the first frame, on a page without one it scrolls to the top
\* in the same step; the 50 ms timer scrolls to exactly the recorded offset; and
\* a restoration under way for K does scroll the viewport to the recorded
\* offset unless another page is shown or the document is reloaded first.
ScrollRoundTrip ==
    /\ []((Ready /\ activePage # chatbotPage) => scrollPos = RecordedOffset(activePage))
    /\ [][(ShowStep /\ activePage' # chatbotPage)
          => IF activePage' \in DOMAIN scrollPositions'
             THEN \E r \in rafQueue' : r.kind = "frame1" /\ r.id = scrollFrame1Id'
             ELSE scrollY' = 0]_vars
    /\ [][(Ready /\ scrollTimers' < scrollTimers /\ Ready'
           /\ activePage # chatbotPage /\ activePage \in DOMAIN scrollPositions)
          => scrollY' = scrollPositions[activePage]]_vars
    /\ \A k \in 1 .. MaxPages : \A y \in 0 .. MaxScroll :
          (Ready /\ activePage = k /\ k # chatbotPage
           /\ RecordedOffset(k) = Some(y) /\ RestorePending)
              ~> (scrollY = y \/ activePage # k \/ ~Ready)

\* C6 witness: back on page 1, whose recorded offset differs from the offset
\* page 2 was left at, the viewport is at page 1's recorded offset and nothing
\* is pending any more.
ScrollRoundTripWitness ==
    /\ lastOp = "reconciled"
    /\ activePage = 1
    /\ DOMAIN scrollPositions = {1, 2}
    /\ scrollPositions[1] = 1
    /\ scrollPositions[2] = 0
    /\ scrollY = 1
    /\ rafQueue = {}
    /\ scrollTimers = 0

ChatbotNeverRecorded ==
    /\ chatbotPage \notin DOMAIN scrollPositions
    /\ chatbotPage \notin DOMAIN StoredScroll

\* C11 witness: the chatbot page 2 was left by a back press (its capture was
\* skipped) after page 1 had been captured.
ChatbotNeverRecordedWitness ==
    /\ lastOp = "reconciled"
    /\ chatbotPage = 2
    /\ currentPage = 1
    /\ hIndex = 1
    /\ DOMAIN scrollPositions = {1}
    /\ DOMAIN StoredScroll = {1}

\* The scheduled restorations that can still scroll the viewport.
ScheduledRestorations ==
    Cardinality(rafQueue) + scrollTimers

\* C12 as stated (superseded restoration never fires): at most one scheduled
\* restoration can still scroll the viewport, and a 50 ms timer that fires
\* scrolls a displayed page other than the chatbot page, to the offset recorded
\* for that page.
SupersededNeverFires ==
    /\ [](ScheduledRestorations <= 1)
    /\ [][(Ready /\ scrollTimers' < scrollTimers /\ Ready')
          => (/\ activePage # chatbotPage
              /\ activePage \in DOMAIN scrollPositions
              /\ scrollY' = scrollPositions[activePage])]_vars

\* C13 as stated (view state follows the page): with no activation timer
\* pending, the chatbot visual state is fully on when the chatbot page is
\* displayed and fully off otherwise.
ChatViewFollowsPage ==
    (Ready /\ activationTimers = 0)
        => IF activePage = chatbotPage
           THEN chatView = [interface |-> TRUE, survey |-> TRUE, surveyLocked |-> TRUE,
                            page |-> TRUE, pageLocked |-> TRUE, body |-> TRUE]
           ELSE chatView = SurveyView

BypassFrame ==
    [][(bypassPopState /\ PopStateHandled)
       => (/\ ~bypassPopState'
           /\ UNCHANGED <<currentPage, historyStates, scrollPositions, scrollPos,
                          scrollFrame1Id, scrollFrame2Id, dialogueFinished,
                          consentCheckbox, sessionStorage, hEntries, phase,
                          popstateAttached, activePage, scrollY, subView, chatView,
                          callbacks>>
           /\ pendingTraversals' = pendingTraversals - 1)]_vars

\* C15 witness: the bypassed event has been handled on page 1 of a survey
\* whose second entry the user had gone forward to.
BypassFrameWitness ==
    /\ lastOp = "bypassed"
    /\ currentPage = 1
    /\ activePage = 1
    /\ popstateAttached
    /\ Len(hEntries) >= 2
    /\ EntryPage(hEntries[2]) = 2

\* initializePage runs in this step (its await resolved).
InitStep == phase = "loading" /\ phase' = "ready"

\* What restoreState gives initializeHistory to work on.
HistoryBefore == restoredHistory(sessionStorage, <<>>)
PageBefore == restoredPage(sessionStorage, 1)

\* The replaceState and the saveNavigationState of initializeHistory.
InitializeHistoryEffects ==
    /\ hEntries' = [hEntries EXCEPT ![hIndex] = Some([page |-> PageBefore])]
    /\ hIndex' = hIndex
    /\ sessionStorage'.currentPage = Some(NumToString(PageBefore))
    /\ sessionStorage'.historyStates = Some(JSONstringifyArray(historyStates'))

\* C16 as stated: initializeHistory(page) appends {page} exactly when page is
\* not the page of the last entry of historyStates; in both cases it replaces
\* the state of the current entry and persists the navigation state.
AppendsUnlessLast ==
    [][InitStep
       => (/\ historyStates' =
                 IF HistoryBefore = <<>>
                    \/ HistoryBefore[Len(HistoryBefore)].page # PageBefore
                 THEN Append(HistoryBefore, [page |-> PageBefore])
                 ELSE HistoryBefore
           /\ InitializeHistoryEffects)]_vars

\* C16 amended: initializeHistory(page) appends {page} exactly when no entry of
\* historyStates carries the page (the test reads the global currentPage, which
\* is page at the only call); in both cases it replaces the state of the
\* current entry and persists the navigation state.
AppendsUnlessPresent ==
    [][InitStep
       => (/\ historyStates' =
                 IF \E i \in DOMAIN HistoryBefore : HistoryBefore[i].page = PageBefore
                 THEN HistoryBefore
                 ELSE Append(HistoryBefore, [page |-> PageBefore])
           /\ InitializeHistoryEffects)]_vars

\* C16 witness: a reload on page 1 of a history whose last entry is page 2 has
\* appended nothing.
AppendsUnlessPresentWitness ==
    /\ lastOp = "init"
    /\ currentPage = 1
    /\ PagesOf(historyStates) = <<1, 2>>
    /\ sessionStorage.historyStates = Some(JSONstringifyArray(historyStates))
    /\ EntryPage(hEntries[hIndex]) = 1

\* C17 (range of currentPage): currentPage is within 1 .. totalPages in every
\* state, and every reconciliation by the default branch moves it by exactly
\* one within that range.
CurrentPageInRange ==
    /\ [](currentPage \in 1 .. totalPages)
    /\ [][(Ready /\ Ready' /\ currentPage' # currentPage)
          => (/\ currentPage' \in {currentPage - 1, currentPage + 1}
              /\ currentPage' \in 1 .. totalPages)]_vars

\* C17 witness: the default branch has incremented currentPage on a forward
\* press and the last page is not reached.
CurrentPageInRangeWitness ==
    /\ lastOp = "reconciled"
    /\ currentPage = 2
    /\ hIndex = 2
    /\ totalPages = 3
    /\ Len(hEntries) = 2

\* The terminal gate has detached the popstate handler and nothing has
\* attached it since: on the document the gate ran in, and on a document
\* loading after a reload of that one.
TerminalDetached ==
    \/ Ready /\ ~popstateAttached
    \/ lastOp = "reloadDetached"

LoadStep == phase = "loading" /\ phase' # "loading"

\* The load of this step sends a request to the metadata endpoint.
FetchStep == LoadStep /\ needsFetch(sessionStorage)

\* The request of this step fails: it is rejected, or answered without the
\* identifiers.
FetchFailure == FetchStep /\ (phase' = "failed" \/ endpointAnswer = EmptyAnswer)

\* C19 as stated (a failed fetch neither blocks nor is retried): a load whose
\* metadata request fails still completes initialisation with the handler
\* attached and the participant identifier stored as "undefined", and no load
\* after a request was sent sends another one.
FailedFetchHarmless ==
    /\ [][FetchFailure
          => (/\ Ready'
              /\ popstateAttached'
              /\ activePage' = currentPage'
              /\ sessionStorage'.participantId = Some("undefined"))]_vars
    /\ [][(fetchIssued /\ LoadStep) => ~FetchStep]_vars

\* C20 as stated (at most one fetch): a load sends the request only when both
\* identifiers are absent from the store, none when one of them is present,
\* and at most one request is sent in a session.
SingleFetch ==
    /\ [][FetchStep
          => (/\ ~IsSome(sessionStorage.participantId)
              /\ ~IsSome(sessionStorage.treatmentGroup)
              /\ fetchIssued')]_vars
    /\ [][(LoadStep /\ (IsSome(sessionStorage.participantId)
                        \/ IsSome(sessionStorage.treatmentGroup)))
          => (~FetchStep /\ fetchIssued' = fetchIssued)]_vars
    /\ [][FetchStep => ~fetchIssued]_vars

====
